---------------------------- MODULE Spec2Model ----------------------------
(***************************************************************************)
(* A model of the Blob motion entity of tuio-rs (src/src/blob.rs) and of   *)
(* the session dispatcher that drives it.                                  *)
(*                                                                         *)
(* f32 values are modelled as fixed-point numbers with Scale units per 1.0 *)
(* plus the IEEE special values NaN, +inf and -inf.  Arithmetic rounds to  *)
(* the nearest representable value, as f32 arithmetic does.                *)
(***************************************************************************)
EXTENDS Integers, Sequences, FiniteSets, TLC

(***************************************************************************)
(* Bounds of the model                                                     *)
(***************************************************************************)
\* fixed-point resolution: the number of representable steps per 1.0
Scale == 1000
\* the largest frame sequence number a producer sends
MaxFseq == 3

\* Duration is modelled in whole milliseconds
MillisPerSec == 1000
\* u16::MAX, the saturation point of `as u16`
U16Max == 65535

(***************************************************************************)
(* f32                                                                     *)
(***************************************************************************)
Fin(n) == [k |-> "fin", v |-> n]
NaN == [k |-> "nan", v |-> 0]
Inf(s) == [k |-> "inf", v |-> s]

IsFinite(a) == a.k = "fin"
IsNaN(a) == a.k = "nan"

Abs(n) == IF n < 0 THEN -n ELSE n
Sgn(n) == IF n < 0 THEN -1 ELSE IF n > 0 THEN 1 ELSE 0

\* integer division rounded to the nearest integer, ties away from zero
RoundDiv(n, d) == Sgn(n) * Sgn(d) * ((Abs(n) + Abs(d) \div 2) \div Abs(d))

\* f32 == : NaN compares unequal to everything, itself included
FEq(a, b) == ~IsNaN(a) /\ ~IsNaN(b) /\ a = b

\* f32 subtraction
FSub(a, b) ==
    IF IsNaN(a) \/ IsNaN(b) THEN NaN
    ELSE IF a.k = "inf" /\ b.k = "inf" THEN (IF a.v = b.v THEN NaN ELSE a)
    ELSE IF a.k = "inf" THEN a
    ELSE IF b.k = "inf" THEN Inf(-b.v)
    ELSE Fin(a.v - b.v)

\* f32 division; every zero of the model is +0.0
FDiv(a, b) ==
    IF IsNaN(a) \/ IsNaN(b) THEN NaN
    ELSE IF a.k = "inf" /\ b.k = "inf" THEN NaN
    ELSE IF a.k = "inf" THEN Inf(IF b.v < 0 THEN -a.v ELSE a.v)
    ELSE IF b.k = "inf" THEN Fin(0)
    ELSE IF b.v = 0 THEN (IF a.v = 0 THEN NaN ELSE Inf(Sgn(a.v)))
    ELSE Fin(RoundDiv(a.v * Scale, b.v))

\* f32 multiplication
FMul(a, b) ==
    IF IsNaN(a) \/ IsNaN(b) THEN NaN
    ELSE IF a.k = "inf" \/ b.k = "inf"
         THEN (IF (a.k = "fin" /\ a.v = 0) \/ (b.k = "fin" /\ b.v = 0)
               THEN NaN ELSE Inf(Sgn(a.v) * Sgn(b.v)))
    ELSE Fin(RoundDiv(a.v * b.v, Scale))

\* the largest r in lo..hi with r * r <= n
RECURSIVE SqrtSearch(_, _, _)
SqrtSearch(n, lo, hi) ==
    IF lo >= hi THEN lo
    ELSE LET mid == (lo + hi + 1) \div 2
         IN IF mid * mid <= n THEN SqrtSearch(n, mid, hi)
                               ELSE SqrtSearch(n, lo, mid - 1)

\* the integer nearest to the square root of n, for 0 <= n <= hi * hi
ISqrt(n, hi) ==
    LET r == SqrtSearch(n, 0, hi)
    IN IF n - r * r > r THEN r + 1 ELSE r

\* `x as u16` for an f32 x: truncates, saturates, and maps NaN to 0
AsU16(a) ==
    IF IsNaN(a) THEN 0
    ELSE IF a.k = "inf" THEN (IF a.v > 0 THEN U16Max ELSE 0)
    ELSE IF a.v < 0 THEN 0
    ELSE IF a.v \div Scale > U16Max THEN U16Max
    ELSE a.v \div Scale

\* `n as f32` for a u16 n
U16AsF32(n) == Fin(n * Scale)

\* std::f32::consts::PI
PI == Fin(RoundDiv(355 * Scale, 113))

\* Duration::as_secs_f32
as_secs_f32(d) == Fin(RoundDiv(d * Scale, MillisPerSec))

(***************************************************************************)
(* cursor::Position and cursor::Velocity                                   *)
(***************************************************************************)
\* sqrt(a * a + b * b)
Hypot(a, b) ==
    IF IsNaN(a) \/ IsNaN(b) THEN NaN
    ELSE IF a.k = "inf" \/ b.k = "inf" THEN Inf(1)
    ELSE Fin(ISqrt(a.v * a.v + b.v * b.v, Abs(a.v) + Abs(b.v)))

\* Position::distance_from
distance_from(p, q) == Hypot(FSub(p.x, q.x), FSub(p.y, q.y))

\* Velocity::get_speed
get_speed(vel) == Hypot(vel.x, vel.y)

\* Velocity::default()
Velocity_default == [x |-> Fin(0), y |-> Fin(0)]

(***************************************************************************)
(* State                                                                   *)
(***************************************************************************)
VARIABLES
    blob,       \* the Blob under test
    last,       \* the last constructing or mutating call on blob, with its arguments
    other,      \* a second Blob, the right-hand side of ==
    query,      \* the last read-only call and what it returned
    table,      \* dispatcher: session_id -> live entity
    lastFseq,   \* dispatcher: the last accepted frame sequence number
    frame,      \* dispatcher: fseq and set session ids of the frame delivered last
    events,     \* dispatcher: the events emitted for the frame delivered last
    verdict     \* dispatcher: what became of the frame delivered last

vars == <<blob, last, other, query, table, lastFseq, frame, events, verdict>>
blobVars == <<blob, last>>
queryVars == <<other, query>>
dispVars == <<table, lastFseq, frame, events, verdict>>

(***************************************************************************)
(* Blob                                                                    *)
(***************************************************************************)
\* Blob::new storing the width as the height too
Blob_new_height_from_width(session_id, position, angle, width, height, area) ==
    [session_id |-> session_id,
     position |-> position,
     velocity |-> Velocity_default,
     acceleration |-> Fin(0),
     angle |-> angle,
     rotation_speed |-> Fin(0),
     rotation_acceleration |-> Fin(0),
     width |-> width,
     height |-> width,
     area |-> area]

\* Blob::new
Blob_new(session_id, position, angle, width, height, area) ==
    [session_id |-> session_id,
     position |-> position,
     velocity |-> Velocity_default,
     acceleration |-> Fin(0),
     angle |-> angle,
     rotation_speed |-> Fin(0),
     rotation_acceleration |-> Fin(0),
     width |-> width,
     height |-> height,
     area |-> area]

\* Blob::with_motion
Blob_with_motion(self, velocity, rotation_speed, acceleration, rotation_acceleration) ==
    [self EXCEPT !.velocity = velocity,
                 !.rotation_speed = rotation_speed,
                 !.acceleration = acceleration,
                 !.rotation_acceleration = rotation_acceleration]

\* Blob::update dividing both velocity components by delta_time, but taking the
\* y component from delta_x
update_velocity_y_from_x(self, dt, position) ==
    LET delta_x == FSub(position.x, self.position.x)
    IN [x |-> FDiv(delta_x, dt), y |-> FDiv(delta_x, dt)]

\* Blob::update, the new velocity: the position delta over delta_time
update_velocity(self, dt, position) ==
    LET delta_x == FSub(position.x, self.position.x)
        delta_y == FSub(position.y, self.position.y)
    IN [x |-> FDiv(delta_x, dt), y |-> FDiv(delta_y, dt)]

\* Blob::update reading last_speed after self.velocity was overwritten
update_acceleration_after_velocity(self, dt, position) ==
    LET distance == distance_from(position, self.position)
        last_speed == get_speed(update_velocity(self, dt, position))
        speed == FDiv(distance, dt)
    IN FDiv(FSub(speed, last_speed), dt)

\* Blob::update, the new acceleration: the change of speed over delta_time
update_acceleration(self, dt, position) ==
    LET distance == distance_from(position, self.position)
        last_speed == get_speed(self.velocity)
        speed == FDiv(distance, dt)
    IN FDiv(FSub(speed, last_speed), dt)

\* Blob::update, the new rotation speed, in turns per second
update_rotation_speed(self, dt, angle) ==
    LET delta_turn == FDiv(FSub(angle, self.angle), FMul(Fin(2 * Scale), PI))
    IN FDiv(delta_turn, dt)

\* Blob::update leaving self.width as it was
Blob_update_keeps_width(self, delta_time, position, angle, width, height, area) ==
    LET dt == as_secs_f32(delta_time)
        rotation_speed == update_rotation_speed(self, dt, angle)
    IN [self EXCEPT
            !.velocity = update_velocity(self, dt, position),
            !.acceleration = update_acceleration(self, dt, position),
            !.position = position,
            !.rotation_acceleration = FDiv(FSub(rotation_speed, self.rotation_speed), dt),
            !.rotation_speed = rotation_speed,
            !.height = height,
            !.area = area]

\* Blob::update; the code assigns every field but session_id and angle
Blob_update(self, delta_time, position, angle, width, height, area) ==
    LET dt == as_secs_f32(delta_time)
        rotation_speed == update_rotation_speed(self, dt, angle)
    IN [self EXCEPT
            !.velocity = update_velocity(self, dt, position),
            !.acceleration = update_acceleration(self, dt, position),
            !.position = position,
            !.rotation_acceleration = FDiv(FSub(rotation_speed, self.rotation_speed), dt),
            !.rotation_speed = rotation_speed,
            !.width = width,
            !.height = height,
            !.area = area]

\* Blob::get_x_position
get_x_position(self) == self.position.x

\* Blob::get_y_position
get_y_position(self) == self.position.y

\* Blob::get_angle
get_angle(self) == self.angle

\* Blob::get_width
get_width(self) == self.width

\* Blob::get_height
get_height(self) == self.height

\* Blob::get_area
get_area(self) == self.area

\* Blob::get_pixel_width
get_pixel_width(self, screen_width) == AsU16(FMul(self.width, U16AsF32(screen_width)))

\* Blob::get_pixel_height; the code multiplies self.width
get_pixel_height(self, screen_height) == AsU16(FMul(self.width, U16AsF32(screen_height)))

\* Velocity ==, derived PartialEq
Velocity_eq(a, b) == FEq(a.x, b.x) /\ FEq(a.y, b.y)

\* impl PartialEq for Blob
Blob_eq(self, o) ==
    /\ self.session_id = o.session_id
    /\ FEq(get_x_position(self), get_x_position(o))
    /\ FEq(get_x_position(self), get_y_position(o))
    /\ FEq(self.angle, o.angle)
    /\ Velocity_eq(self.velocity, o.velocity)
    /\ FEq(self.rotation_speed, o.rotation_speed)
    /\ FEq(self.acceleration, o.acceleration)
    /\ FEq(self.rotation_acceleration, o.rotation_acceleration)
    /\ FEq(self.width, o.width)
    /\ FEq(self.height, o.height)
    /\ FEq(self.area, o.area)

(***************************************************************************)
(* Inputs                                                                  *)
(***************************************************************************)
Pos(x, y) == [x |-> Fin(x), y |-> Fin(y)]
Half == Scale \div 2
Quarter == Scale \div 4

\* session ids a caller or a producer uses
SessionIds == {0, 1}

\* positions a caller passes: normalized ones, and one outside [0,1]
Positions == {Pos(0, 0), Pos(Scale, Scale), Pos(2 * Scale, -Half)}

\* 90 degrees in radians
HalfPi == FDiv(PI, Fin(2 * Scale))

\* angles a caller passes, in radians
Angles == {Fin(0), HalfPi}

\* <<width, height, area>> a caller passes: a normalized one, and one outside [0,1]
Extents ==
    {<<Fin(Half), Fin(Quarter), Fin(Quarter \div 2)>>,
     <<Fin(2 * Scale), Fin(3 * Half), Fin(-Quarter)>>}

\* durations a caller passes, in milliseconds
Durations == {0, MillisPerSec \div 2, MillisPerSec}

\* <<velocity, rotation_speed, acceleration, rotation_acceleration>> given to with_motion
Motions ==
    {<<[x |-> Fin(-Half), y |-> Fin(Scale)], Fin(Quarter), Fin(Half), Fin(-Quarter)>>}

\* screen sizes given to the pixel getters
Screens == {0, 100, 640}

(***************************************************************************)
(* The Blob under a sequence of calls                                      *)
(***************************************************************************)
\* the record of a call to new or update
Call(op, session_id, delta_time, position, angle, e) ==
    [op |-> op, session_id |-> session_id, delta_time |-> delta_time,
     position |-> position, angle |-> angle,
     width |-> e[1], height |-> e[2], area |-> e[3]]

NoQuery == [op |-> "none", arg |-> 0, ret |-> 0]
\* a session table holding no entity
EmptyTable == [s \in {} |-> 0]

\* no frame delivered yet
NoFrame == [fseq |-> -1, set_ids |-> {}]

\* the dispatcher before its first frame
DispIdle ==
    /\ table = EmptyTable
    /\ lastFseq = -1
    /\ frame = NoFrame
    /\ events = <<>>
    /\ verdict = "none"

\* let blob = Blob::new(session_id, position, angle, width, height, area)
Init ==
    /\ \E sid \in SessionIds, p \in Positions, a \in Angles, e \in Extents :
          /\ blob = Blob_new(sid, p, a, e[1], e[2], e[3])
          /\ last = Call("new", sid, 0, p, a, e)
    /\ other = blob
    /\ query = NoQuery
    /\ DispIdle

\* blob.update(delta_time, position, angle, width, height, area)
Update ==
    \E d \in Durations, p \in Positions, a \in Angles, e \in Extents :
       /\ blob' = Blob_update(blob, d, p, a, e[1], e[2], e[3])
       /\ last' = Call("update", blob.session_id, d, p, a, e)
       /\ UNCHANGED <<other, query, dispVars>>

\* blob = blob.with_motion(velocity, rotation_speed, acceleration, rotation_acceleration)
\* last keeps the arguments of the latest new or update
WithMotion ==
    \E m \in Motions :
       /\ blob' = Blob_with_motion(blob, m[1], m[2], m[3], m[4])
       /\ last' = [last EXCEPT !.op = "with_motion"]
       /\ UNCHANGED <<other, query, dispVars>>

Next == Update \/ WithMotion

Spec == Init /\ [][Next]_vars

(***************************************************************************)
(* Properties of Blob::new and Blob::update                                *)
(***************************************************************************)
\* q is n / d rounded to a representable value, for integers n and d > 0 in
\* fixed-point units
IsQuotient(q, n, d) == IsFinite(q) /\ 2 * Abs(q.v * d - n * Scale) <= d

\* a is a finite value within [0,1]
InUnit(a) == IsFinite(a) /\ 0 <= a.v /\ a.v <= Scale

\* the step is a call of update with delta_time > 0
UpdateStep == last'.op = "update" /\ last'.delta_time > 0

\* C1: after update with delta_time > 0 the velocity is, component-wise, the
\* difference between the position passed in and the position held before the
\* call, divided by delta_time, and the position is the position passed in.
C1_VelocityIsDeltaOverTime ==
    [][UpdateStep =>
         LET d == as_secs_f32(last'.delta_time).v
         IN /\ IsQuotient(blob'.velocity.x, last'.position.x.v - blob.position.x.v, d)
            /\ IsQuotient(blob'.velocity.y, last'.position.y.v - blob.position.y.v, d)
            /\ blob'.position = last'.position]_vars

\* an update over half a second from (2,-0.5) to (0,0): velocity (-4,1)
C1_Witness ==
    /\ last.op = "update"
    /\ last.delta_time = MillisPerSec \div 2
    /\ blob.position = Pos(0, 0)
    /\ blob.velocity = [x |-> Fin(-4 * Scale), y |-> Fin(Scale)]

\* C2: after update with delta_time > 0 the acceleration is (speed -
\* previous_speed) / delta_time, where speed is the distance between the new and
\* the old position over delta_time and previous_speed is the magnitude of the
\* velocity held before the call.
C2_AccelerationIsSpeedChangeOverTime ==
    [][UpdateStep =>
         LET dt == as_secs_f32(last'.delta_time)
             speed == FDiv(distance_from(last'.position, blob.position), dt)
             previous_speed == get_speed(blob.velocity)
         IN CASE IsNaN(previous_speed) -> IsNaN(blob'.acceleration)
              [] previous_speed.k = "inf" -> blob'.acceleration = Inf(-1)
              [] OTHER ->
                   /\ IsQuotient(speed, distance_from(last'.position, blob.position).v, dt.v)
                   /\ IsQuotient(blob'.acceleration, speed.v - previous_speed.v, dt.v)]_vars

\* a blob at rest moved from (0,0) to (1,1) in one second: acceleration sqrt(2)
C2_Witness ==
    /\ last.op = "update"
    /\ last.delta_time = MillisPerSec
    /\ blob.position = Pos(Scale, Scale)
    /\ blob.velocity = [x |-> Fin(Scale), y |-> Fin(Scale)]
    /\ blob.acceleration = Fin(ISqrt(2 * Scale * Scale, 2 * Scale))

\* C3: after update with delta_time > 0 the rotation speed is the difference
\* between the angle passed to this call and the angle passed to the preceding
\* update (or to new), in turns, over delta_time.
C3_RotationSpeedFromPreviousAngle ==
    [][UpdateStep =>
         blob'.rotation_speed =
            FDiv(FDiv(FSub(last'.angle, last.angle), FMul(Fin(2 * Scale), PI)),
                 as_secs_f32(last'.delta_time))]_vars

\* C4: after update the getters return the angle, width, height, area and
\* position passed to that call.
C4_GettersReturnUpdateArguments ==
    last.op = "update" =>
        /\ get_angle(blob) = last.angle
        /\ get_width(blob) = last.width
        /\ get_height(blob) = last.height
        /\ get_area(blob) = last.area
        /\ get_x_position(blob) = last.position.x
        /\ get_y_position(blob) = last.position.y

\* the derived kinematic fields hold neither NaN nor an infinity
KinematicsFinite(b) ==
    /\ IsFinite(b.velocity.x)
    /\ IsFinite(b.velocity.y)
    /\ IsFinite(b.acceleration)
    /\ IsFinite(b.rotation_speed)
    /\ IsFinite(b.rotation_acceleration)

\* C5: update with delta_time = 0 leaves the blob unchanged, and no update
\* stores NaN or an infinity in velocity, acceleration, rotation_speed or
\* rotation_acceleration.
C5_ZeroDeltaTimeRejected ==
    [][last'.op = "update" =>
         /\ (last'.delta_time = 0 => blob' = blob)
         /\ KinematicsFinite(blob')]_vars

\* C6: the blob returned by new, before any update or with_motion, has zero
\* velocity, acceleration, rotation speed and rotation acceleration and holds
\* the session_id, position, angle, width, height and area it was given.
C6_NewBlobIsAtRest ==
    last.op = "new" =>
        /\ blob.velocity = [x |-> Fin(0), y |-> Fin(0)]
        /\ blob.acceleration = Fin(0)
        /\ blob.rotation_speed = Fin(0)
        /\ blob.rotation_acceleration = Fin(0)
        /\ blob.session_id = last.session_id
        /\ blob.position = last.position
        /\ blob.angle = last.angle
        /\ blob.width = last.width
        /\ blob.height = last.height
        /\ blob.area = last.area

\* a blob just built with a non-zero session_id, position and angle
C6_Witness ==
    /\ last.op = "new"
    /\ blob.session_id = 1
    /\ blob.position = Pos(Scale, Scale)
    /\ blob.angle = HalfPi
    /\ blob.width = Fin(Half)
    /\ blob.height = Fin(Quarter)

\* width, height, area and both position components are within [0,1]
ExtentsInUnit(b) ==
    /\ InUnit(b.width)
    /\ InUnit(b.height)
    /\ InUnit(b.area)
    /\ InUnit(b.position.x)
    /\ InUnit(b.position.y)

\* C8, as claimed: in every state reached by new and updates the width, height,
\* area and position components are within [0,1].
C8_AlwaysNormalized == ExtentsInUnit(blob)

\* C8, amended: when the position, width, height and area passed to the latest
\* new or update are within [0,1], the blob's width, height, area and position
\* components are within [0,1], whatever they were before.
C8_NormalizedWhenArgumentsAre == ExtentsInUnit(last) => ExtentsInUnit(blob)

\* an update with normalized arguments of a blob that was at x = 2
C8_Witness ==
    /\ last.op = "update"
    /\ last.delta_time = MillisPerSec
    /\ ExtentsInUnit(last)
    /\ blob.position = Pos(0, 0)
    /\ blob.velocity.x = Fin(-2 * Scale)

(***************************************************************************)
(* The read-only operations of Blob: the pixel getters and ==              *)
(***************************************************************************)
\* blobs as new returns them, and the same given motion by with_motion
NewBlobs ==
    {Blob_new(sid, p, a, e[1], e[2], e[3]) :
        sid \in SessionIds, p \in Positions \cup {Pos(Half, Quarter)},
        a \in Angles, e \in Extents}

QueryBlobs ==
    NewBlobs \cup {Blob_with_motion(b, m[1], m[2], m[3], m[4]) : b \in NewBlobs, m \in Motions}

\* two blobs, built independently
InitQuery ==
    /\ blob \in QueryBlobs
    /\ other \in QueryBlobs
    /\ last = Call("new", blob.session_id, 0, blob.position, blob.angle,
                   <<blob.width, blob.height, blob.area>>)
    /\ query = NoQuery
    /\ DispIdle

\* other = blob.clone()
Clone ==
    /\ other' = blob
    /\ query' = [op |-> "clone", arg |-> 0, ret |-> 0]
    /\ UNCHANGED <<blobVars, dispVars>>

\* blob.get_pixel_width(screen_width)
GetPixelWidth ==
    \E sw \in Screens :
       /\ query' = [op |-> "get_pixel_width", arg |-> sw, ret |-> get_pixel_width(blob, sw)]
       /\ UNCHANGED <<other, blobVars, dispVars>>

\* blob.get_pixel_height(screen_height)
GetPixelHeight ==
    \E sh \in Screens :
       /\ query' = [op |-> "get_pixel_height", arg |-> sh, ret |-> get_pixel_height(blob, sh)]
       /\ UNCHANGED <<other, blobVars, dispVars>>

\* blob == other
Eq ==
    /\ query' = [op |-> "eq", arg |-> 0, ret |-> Blob_eq(blob, other)]
    /\ UNCHANGED <<other, blobVars, dispVars>>

NextQuery == Clone \/ GetPixelWidth \/ GetPixelHeight \/ Eq

SpecQuery == InitQuery /\ [][NextQuery]_vars

\* C7: get_pixel_height(screen_height) returns the normalized height multiplied
\* by screen_height, truncated to an integer.
C7_PixelHeightFromHeight ==
    query.op = "get_pixel_height" =>
        query.ret = AsU16(FMul(blob.height, U16AsF32(query.arg)))

\* every field of a equals, as f32 or i32, the same field of b
FieldsEqual(a, b) ==
    /\ a.session_id = b.session_id
    /\ FEq(a.position.x, b.position.x)
    /\ FEq(a.position.y, b.position.y)
    /\ FEq(a.angle, b.angle)
    /\ FEq(a.velocity.x, b.velocity.x)
    /\ FEq(a.velocity.y, b.velocity.y)
    /\ FEq(a.rotation_speed, b.rotation_speed)
    /\ FEq(a.acceleration, b.acceleration)
    /\ FEq(a.rotation_acceleration, b.rotation_acceleration)
    /\ FEq(a.width, b.width)
    /\ FEq(a.height, b.height)
    /\ FEq(a.area, b.area)

\* C10: a == b holds exactly when the two blobs agree on every field.
C10_EqIsFieldwiseEquality ==
    query.op = "eq" => (query.ret <=> FieldsEqual(blob, other))

(***************************************************************************)
(* The session dispatcher of the blob kind, for one source                 *)
(***************************************************************************)
\* the attributes a "set" message carries for a blob
SetAttributes == {[position |-> p, angle |-> Fin(0), extents |-> e] :
                    p \in {Pos(0, 0), Pos(Scale, Scale)},
                    e \in {<<Fin(Half), Fin(Quarter), Fin(Quarter \div 2)>>}}

\* the "set" messages of a frame: at most one per session id
SetMessages == UNION {[ids -> SetAttributes] : ids \in SUBSET SessionIds}

\* the frames a source sends: set messages, the alive list, fseq (-1: no
\* sequencing) and the time elapsed since the frame before
Frames ==
    {[fseq |-> n, sets |-> m, alive |-> a, dt |-> MillisPerSec] :
        n \in -1 .. MaxFseq, m \in SetMessages, a \in SUBSET SessionIds}

\* the elements of a set of session ids, in ascending order
RECURSIVE Ascending(_)
Ascending(ids) ==
    IF ids = {} THEN <<>>
    ELSE LET lo == CHOOSE s \in ids : \A t \in ids : s <= t
         IN <<lo>> \o Ascending(ids \ {lo})

\* one event of the given kind per session id
EventsOf(kind, ids) ==
    LET order == Ascending(ids)
    IN [i \in 1 .. Len(order) |-> [kind |-> kind, session_id |-> order[i]]]

\* a staleness test that passes a frame repeating the last accepted fseq
IsStale_strictly_older(fseq, accepted) == fseq >= 0 /\ fseq < accepted

\* the frame is stale or a duplicate: its fseq is non-negative and not strictly
\* greater than the last accepted fseq
IsStale(fseq, accepted) == fseq >= 0 /\ fseq <= accepted

\* the table after the "set" messages: an unknown session id is created at rest,
\* a known one is updated with the time elapsed
ApplySets(t, f) ==
    [s \in DOMAIN t \cup DOMAIN f.sets |->
        IF s \notin DOMAIN f.sets THEN t[s]
        ELSE LET m == f.sets[s]
             IN IF s \in DOMAIN t
                THEN Blob_update(t[s], f.dt, m.position, m.angle,
                                 m.extents[1], m.extents[2], m.extents[3])
                ELSE Blob_new(s, m.position, m.angle,
                              m.extents[1], m.extents[2], m.extents[3])]

\* the table after the "alive" message: the session ids that were in the table
\* before the frame and are not listed are removed
ApplyAlive(t, removed) == [s \in DOMAIN t \ removed |-> t[s]]

\* one frame is delivered to the dispatcher
Deliver ==
    \E f \in Frames :
       /\ frame' = [fseq |-> f.fseq, set_ids |-> DOMAIN f.sets]
       /\ IF IsStale(f.fseq, lastFseq)
          THEN /\ verdict' = "stale"
               /\ events' = <<>>
               /\ UNCHANGED <<table, lastFseq>>
          ELSE LET created == DOMAIN f.sets \ DOMAIN table
                   updated == DOMAIN f.sets \cap DOMAIN table
                   removed == DOMAIN table \ f.alive
               IN /\ verdict' = "accepted"
                  /\ table' = ApplyAlive(ApplySets(table, f), removed)
                  /\ events' = EventsOf("add", created) \o EventsOf("update", updated)
                                  \o EventsOf("remove", removed)
                  /\ lastFseq' = IF f.fseq >= 0 THEN f.fseq ELSE lastFseq
       /\ UNCHANGED <<blobVars, queryVars>>

InitDisp ==
    /\ blob = Blob_new(0, Pos(0, 0), Fin(0), Fin(0), Fin(0), Fin(0))
    /\ last = Call("new", 0, 0, Pos(0, 0), Fin(0), <<Fin(0), Fin(0), Fin(0)>>)
    /\ other = blob
    /\ query = NoQuery
    /\ DispIdle

NextDisp == Deliver

SpecDisp == InitDisp /\ [][NextDisp]_vars

\* C9: delivering a frame whose fseq is non-negative and at most the last
\* accepted fseq emits no event and leaves the session table and the last
\* accepted fseq unchanged.
C9_StaleFrameChangesNothing ==
    [][(frame'.fseq >= 0 /\ frame'.fseq <= lastFseq) =>
         /\ events' = <<>>
         /\ table' = table
         /\ lastFseq' = lastFseq]_vars

\* a frame repeating the last accepted fseq, with a set message for a live
\* session and one for a session not in the table, was delivered and passed off
C9_Witness ==
    /\ verdict = "stale"
    /\ frame.fseq = lastFseq
    /\ events = <<>>
    /\ frame.set_ids \cap DOMAIN table # {}
    /\ frame.set_ids \ DOMAIN table # {}

=============================================================================
